---- MODULE Spec2Model ----
(***************************************************************************)
(* The AWS MSK server's best-practices resources                           *)
(* (resources/best_practices.py) and its unified cluster-read tool         *)
(* (tools/read_cluster/__init__.py with the forwarding functions           *)
(* list_cluster_operations and get_compatible_kafka_versions).             *)
(*                                                                         *)
(* Python values are modelled as follows.  A str is a TLA+ string (TLC     *)
(* evaluates Len, \o and SubSeq on strings).  An int is an integer.  A     *)
(* float of the table is kept as its number of tenths (every float literal *)
(* of INSTANCE_SPECS has exactly one decimal digit) and formatted from     *)
(* there.  INSTANCE_SPECS, whose key order the catalog's list              *)
(* comprehensions observe, is a sequence of <<key, value>> items in        *)
(* insertion order; the other dicts are functions on their keys.  A call   *)
(* ends in an outcome: a returned value or a raised exception.             *)
(***************************************************************************)
EXTENDS Integers, Sequences, FiniteSets, TLC

VARIABLES
    INSTANCE_SPECS,   \* best_practices.py module global: the spec table
    thresholds,       \* best_practices.py module globals: the eight threshold constants
    response,         \* what the most recent best-practices call handed to its caller
    earlier,          \* a get_cluster_best_practices result a caller still holds
    request,          \* get_cluster_info: the arguments of the call in progress
    pc,               \* get_cluster_info: position of the call in progress
    result,           \* get_cluster_info: the local dict `result` of the "all" branch
    calls,            \* get_cluster_info: the calls it made so far, in order, with outcome
    sdk_calls,        \* the SDK requests the forwarding functions issued for it, in order
    outcome           \* get_cluster_info: how the call ended

bpvars == <<INSTANCE_SPECS, thresholds, response, earlier>>
infovars == <<request, pc, result, calls, sdk_calls, outcome>>
vars == <<INSTANCE_SPECS, thresholds, response, earlier, request, pc, result, calls, sdk_calls,
          outcome>>

(***************************************************************************)
(* Bounds of the model.                                                    *)
(***************************************************************************)
MaxBrokers == 5       \* largest number_of_brokers a caller passes
MaxNegBrokers == 1    \* callers also pass 0 and -1 .. -MaxNegBrokers (no lower bound is enforced)

BrokerCounts == (0 - MaxNegBrokers)..MaxBrokers

(***************************************************************************)
(* Python outcomes and string helpers.                                     *)
(***************************************************************************)
Return(v) == [raised |-> FALSE, value |-> v]
Raise(type, msg) == [raised |-> TRUE, value |-> <<type, msg>>]

\* str.startswith(prefix)
startswith(s, prefix) ==
    /\ Len(s) >= Len(prefix)
    /\ SubSeq(s, 1, Len(prefix)) = prefix

\* `sub in s` on strings
Contains(s, sub) ==
    \E i \in 1..(Len(s) - Len(sub) + 1) : SubSeq(s, i, i + Len(sub) - 1) = sub

\* f'{n}' of an int
FormatInt(n) == ToString(n)

\* a float literal with one decimal digit, kept as its tenths
Float(t) == [tenths |-> t]

\* f'{x}' of such a float: repr gives the integer part, a point and the digit
FormatFloat(x) == ToString(x.tenths \div 10) \o "." \o ToString(x.tenths % 10)

(***************************************************************************)
(* best_practices.py: the module-level constants.                          *)
(***************************************************************************)
RECOMMENDED_CPU_UTILIZATION_PERCENT == 60
MAX_CPU_UTILIZATION_PERCENT == 70
STORAGE_UTILIZATION_WARNING_PERCENT == 85
STORAGE_UTILIZATION_CRITICAL_PERCENT == 90
RECOMMENDED_REPLICATION_FACTOR == 3
RECOMMENDED_MIN_INSYNC_REPLICAS == 2
UNDER_REPLICATED_PARTITIONS_TOLERANCE == 0
LEADER_IMBALANCE_TOLERANCE_PERCENT == 10

\* the module's global namespace after import, as far as the thresholds go
ThresholdConstants ==
    [RECOMMENDED_CPU_UTILIZATION_PERCENT |-> RECOMMENDED_CPU_UTILIZATION_PERCENT,
     MAX_CPU_UTILIZATION_PERCENT |-> MAX_CPU_UTILIZATION_PERCENT,
     STORAGE_UTILIZATION_WARNING_PERCENT |-> STORAGE_UTILIZATION_WARNING_PERCENT,
     STORAGE_UTILIZATION_CRITICAL_PERCENT |-> STORAGE_UTILIZATION_CRITICAL_PERCENT,
     RECOMMENDED_REPLICATION_FACTOR |-> RECOMMENDED_REPLICATION_FACTOR,
     RECOMMENDED_MIN_INSYNC_REPLICAS |-> RECOMMENDED_MIN_INSYNC_REPLICAS,
     UNDER_REPLICATED_PARTITIONS_TOLERANCE |-> UNDER_REPLICATED_PARTITIONS_TOLERANCE,
     LEADER_IMBALANCE_TOLERANCE_PERCENT |-> LEADER_IMBALANCE_TOLERANCE_PERCENT]

\* one value of INSTANCE_SPECS, its nine keys in the order of the literal
InstanceSpec(vcpu, mem, net, inRec, inMax, egRec, egMax, partRec, partMax) ==
    [k \in {"vCPU", "Memory (GB)", "Network Bandwidth (Gbps)",
            "Ingress Recommended (MBps)", "Ingress Max (MBps)",
            "Egress Recommended (MBps)", "Egress Max (MBps)",
            "Partitions per Broker Recommended", "Partitions per Broker Max"} |->
        CASE k = "vCPU" -> vcpu
          [] k = "Memory (GB)" -> mem
          [] k = "Network Bandwidth (Gbps)" -> Float(net)
          [] k = "Ingress Recommended (MBps)" -> Float(inRec)
          [] k = "Ingress Max (MBps)" -> Float(inMax)
          [] k = "Egress Recommended (MBps)" -> Float(egRec)
          [] k = "Egress Max (MBps)" -> Float(egMax)
          [] k = "Partitions per Broker Recommended" -> partRec
          [] k = "Partitions per Broker Max" -> partMax]

\* the INSTANCE_SPECS literal: items in insertion order, floats in tenths
INSTANCE_SPECS_literal ==
    <<
       <<"kafka.t3.small", InstanceSpec(2, 2, 50, 48, 72, 96, 180, 300, 300)>>,
       <<"kafka.m5.large", InstanceSpec(2, 8, 100, 48, 72, 96, 180, 1000, 1500)>>,
       <<"kafka.m5.xlarge", InstanceSpec(4, 16, 100, 96, 144, 192, 360, 1000, 1500)>>,
       <<"kafka.m5.2xlarge", InstanceSpec(8, 32, 100, 192, 288, 384, 720, 2000, 3000)>>,
       <<"kafka.m5.4xlarge", InstanceSpec(16, 64, 100, 384, 576, 768, 1440, 4000, 6000)>>,
       <<"kafka.m5.8xlarge", InstanceSpec(32, 128, 100, 769, 1154, 1538, 2885, 4000, 6000)>>,
       <<"kafka.m5.12xlarge", InstanceSpec(48, 192, 120, 1154, 1731, 2308, 4327, 4000, 6000)>>,
       <<"kafka.m5.16xlarge", InstanceSpec(64, 256, 200, 1538, 2307, 3077, 5769, 4000, 6000)>>,
       <<"kafka.m5.24xlarge", InstanceSpec(96, 384, 250, 1538, 2307, 3077, 5769, 4000, 6000)>>,
       <<"kafka.m7g.large", InstanceSpec(2, 8, 125, 48, 72, 96, 180, 1000, 1500)>>,
       <<"kafka.m7g.xlarge", InstanceSpec(4, 16, 150, 96, 144, 192, 360, 1000, 1500)>>,
       <<"kafka.m7g.2xlarge", InstanceSpec(8, 32, 150, 192, 288, 384, 720, 2000, 3000)>>,
       <<"kafka.m7g.4xlarge", InstanceSpec(16, 64, 150, 384, 576, 768, 1440, 4000, 6000)>>,
       <<"kafka.m7g.8xlarge", InstanceSpec(32, 128, 150, 769, 1154, 1538, 2885, 4000, 6000)>>,
       <<"kafka.m7g.12xlarge", InstanceSpec(48, 192, 225, 1154, 1731, 2308, 4327, 4000, 6000)>>,
       <<"kafka.m7g.16xlarge", InstanceSpec(64, 256, 300, 1538, 2307, 3077, 5769, 4000, 6000)>>,
       <<"express.m7g.large", InstanceSpec(2, 8, 125, 156, 234, 312, 585, 1000, 1500)>>,
       <<"express.m7g.xlarge", InstanceSpec(4, 16, 150, 312, 468, 625, 1170, 1000, 1500)>>,
       <<"express.m7g.2xlarge", InstanceSpec(8, 32, 150, 625, 937, 1250, 2342, 2000, 3000)>>,
       <<"express.m7g.4xlarge", InstanceSpec(16, 64, 150, 1249, 1875, 2498, 4687, 4000, 6000)>>,
       <<"express.m7g.8xlarge", InstanceSpec(32, 128, 150, 2500, 3750, 5000, 9375, 4000, 6000)>>,
       <<"express.m7g.12xlarge", InstanceSpec(48, 192, 225, 3750, 5625, 7500, 14062, 4000, 6000)>>,
       <<"express.m7g.16xlarge", InstanceSpec(64, 256, 300, 5000, 7500, 10000, 18750, 4000, 6000)>>
    >>

\* dict operations on an insertion-ordered dict
keys(d) == [i \in 1..Len(d) |-> d[i][1]]
KeySet(d) == {d[i][1] : i \in 1..Len(d)}
getitem(d, k) == d[CHOOSE i \in 1..Len(d) : d[i][1] = k][2]


(***************************************************************************)
(* best_practices.py: get_cluster_best_practices.                          *)
(***************************************************************************)

\* SpecKeysRead with one subscript misspelt
SpecKeysRead_typo ==
    <<"Partitions per Broker Recommended", "Partitions per Broker Max", "vCPU",
      "Memory (GiB)", "Network Bandwidth (Gbps)", "Ingress Recommended (MBps)",
      "Ingress Max (MBps)", "Egress Recommended (MBps)", "Egress Max (MBps)">>

\* the keys of `specs` the function subscripts, in the order it first reads them
SpecKeysRead ==
    <<"Partitions per Broker Recommended", "Partitions per Broker Max", "vCPU",
      "Memory (GB)", "Network Bandwidth (Gbps)", "Ingress Recommended (MBps)",
      "Ingress Max (MBps)", "Egress Recommended (MBps)", "Egress Max (MBps)">>

\* instance_type.startswith('express.')
is_express_cluster(instance_type) == startswith(instance_type, "express.")

\* replication_factor without the express override
replication_factor_no_override(instance_type, number_of_brokers) ==
    IF number_of_brokers >= thresholds.RECOMMENDED_REPLICATION_FACTOR
    THEN thresholds.RECOMMENDED_REPLICATION_FACTOR
    ELSE number_of_brokers

\* the local replication_factor after the express override
replication_factor(instance_type, number_of_brokers) ==
    IF is_express_cluster(instance_type)
    THEN 3
    ELSE IF number_of_brokers >= thresholds.RECOMMENDED_REPLICATION_FACTOR
         THEN thresholds.RECOMMENDED_REPLICATION_FACTOR
         ELSE number_of_brokers

\* min_insync_replicas following the broker count without the cap at 2
min_insync_replicas_uncapped(number_of_brokers) == number_of_brokers

\* min_insync_replicas without the small-cluster branch
min_insync_replicas_fixed(number_of_brokers) ==
    thresholds.RECOMMENDED_MIN_INSYNC_REPLICAS

\* the local min_insync_replicas
min_insync_replicas(number_of_brokers) ==
    IF number_of_brokers >= thresholds.RECOMMENDED_REPLICATION_FACTOR
    THEN thresholds.RECOMMENDED_MIN_INSYNC_REPLICAS
    ELSE number_of_brokers

\* the local recommended_cluster_partitions
recommended_cluster_partitions(specs, number_of_brokers) ==
    specs["Partitions per Broker Recommended"] * number_of_brokers

\* max_cluster_partitions computed from the recommended figure
max_cluster_partitions_from_recommended(specs, number_of_brokers) ==
    specs["Partitions per Broker Recommended"] * number_of_brokers

\* the local max_cluster_partitions
max_cluster_partitions(specs, number_of_brokers) ==
    specs["Partitions per Broker Max"] * number_of_brokers

CloudWatchNote ==
    " (Note: CloudWatch metrics may be in bytes; ensure proper conversion between bytes and megabytes)"

\* the annotation with the two branches of the conditional exchanged
replication_factor_note_exchanged(instance_type) ==
    IF is_express_cluster(instance_type)
    THEN " (recommended)"
    ELSE " (Note: For express clusters, replication factor should always be 3)"

\* the annotation appended to the replication factor
replication_factor_note(instance_type) ==
    IF is_express_cluster(instance_type)
    THEN " (Note: For express clusters, replication factor should always be 3)"
    ELSE " (recommended)"

\* the dict of the final return statement
Recommendation(specs, instance_type, number_of_brokers) ==
    ("Instance Type" :> instance_type \o " (provided as input)")
    @@ ("Number of Brokers" :> FormatInt(number_of_brokers) \o " (provided as input)")
    @@ ("vCPU per Broker" :> specs["vCPU"])
    @@ ("Memory (GB) per Broker" :>
            FormatInt(specs["Memory (GB)"]) \o " (available on the host)")
    @@ ("Network Bandwidth (Gbps) per Broker" :>
            FormatFloat(specs["Network Bandwidth (Gbps)"]) \o " (available on the host)")
    @@ ("Ingress Throughput Recommended (MBps)" :>
            FormatFloat(specs["Ingress Recommended (MBps)"]) \o CloudWatchNote)
    @@ ("Ingress Throughput Max (MBps)" :>
            FormatFloat(specs["Ingress Max (MBps)"]) \o CloudWatchNote)
    @@ ("Egress Throughput Recommended (MBps)" :>
            FormatFloat(specs["Egress Recommended (MBps)"]) \o CloudWatchNote)
    @@ ("Egress Throughput Max (MBps)" :>
            FormatFloat(specs["Egress Max (MBps)"]) \o CloudWatchNote)
    @@ ("Recommended Partitions per Broker" :> specs["Partitions per Broker Recommended"])
    @@ ("Max Partitions per Broker" :>
            FormatInt(specs["Partitions per Broker Max"])
            \o " (Note: Each partition should be 3-way replicated. For example, 1000 total partitions with three brokers will mean each broker has 1000 partitions.)")
    @@ ("Recommended Max Partitions per Cluster" :>
            recommended_cluster_partitions(specs, number_of_brokers))
    @@ ("Max Partitions per Cluster" :> max_cluster_partitions(specs, number_of_brokers))
    @@ ("CPU Utilization Guidelines" :>
            "Keep below " \o FormatInt(thresholds.RECOMMENDED_CPU_UTILIZATION_PERCENT)
            \o "% regularly; never exceed "
            \o FormatInt(thresholds.MAX_CPU_UTILIZATION_PERCENT) \o "%.")
    @@ ("Disk Utilization Guidelines" :>
            "Warning at " \o FormatInt(thresholds.STORAGE_UTILIZATION_WARNING_PERCENT)
            \o "%, critical at "
            \o FormatInt(thresholds.STORAGE_UTILIZATION_CRITICAL_PERCENT) \o "%.")
    @@ ("Replication Factor" :>
            FormatInt(replication_factor(instance_type, number_of_brokers))
            \o replication_factor_note(instance_type))
    @@ ("Minimum In-Sync Replicas" :> min_insync_replicas(number_of_brokers))
    @@ ("Under-Replicated Partitions Tolerance" :>
            thresholds.UNDER_REPLICATED_PARTITIONS_TOLERANCE)
    @@ ("Leader Imbalance Tolerance (%)" :> thresholds.LEADER_IMBALANCE_TOLERANCE_PERCENT)

\* get_cluster_best_practices without the membership test: the subscript
\* INSTANCE_SPECS[instance_type] raises KeyError for a type that is no key
get_cluster_best_practices_unchecked(instance_type, number_of_brokers) ==
    IF instance_type \notin KeySet(INSTANCE_SPECS)
    THEN Raise("KeyError", instance_type)
    ELSE Return(Recommendation(getitem(INSTANCE_SPECS, instance_type),
                               instance_type, number_of_brokers))

\* get_cluster_best_practices(instance_type, number_of_brokers): its outcome.
\* A subscript of `specs` with a key it lacks raises KeyError at the first
\* such read.
get_cluster_best_practices(instance_type, number_of_brokers) ==
    IF instance_type \notin KeySet(INSTANCE_SPECS)
    THEN Return("Error" :>
            "Instance type '" \o instance_type \o "' is not supported or recognized.")
    ELSE LET specs == getitem(INSTANCE_SPECS, instance_type)
             missing == {i \in 1..Len(SpecKeysRead) : SpecKeysRead[i] \notin DOMAIN specs}
         IN IF missing # {}
            THEN Raise("KeyError",
                       SpecKeysRead[CHOOSE i \in missing : \A j \in missing : i <= j])
            ELSE Return(Recommendation(specs, instance_type, number_of_brokers))

(***************************************************************************)
(* best_practices.py: the two resources register_module registers.         *)
(***************************************************************************)

\* json.dumps(obj): the serialised document, kept as an envelope around the
\* object it encodes (the encoder is the standard library's)
json_dumps(obj) == [json |-> obj]

\* int(number_of_brokers) of a value the resource template already typed int
int(x) == x

\* best_practices with the standard category filtered by 'kafka.m'
best_practices_narrow_prefix ==
    [thresholds |-> thresholds,
     instance_specs |-> INSTANCE_SPECS,
     instance_categories |->
        [standard |-> SelectSeq(keys(INSTANCE_SPECS), LAMBDA key : startswith(key, "kafka.m")),
         express |-> SelectSeq(keys(INSTANCE_SPECS), LAMBDA key : startswith(key, "express."))]]

\* the best_practices dict msk_best_practices builds
best_practices ==
    [thresholds |->
        [cpu_utilization |->
            [recommended_max |-> thresholds.RECOMMENDED_CPU_UTILIZATION_PERCENT,
             critical_max |-> thresholds.MAX_CPU_UTILIZATION_PERCENT,
             description |->
                "Keep below " \o FormatInt(thresholds.RECOMMENDED_CPU_UTILIZATION_PERCENT)
                \o "% regularly; never exceed "
                \o FormatInt(thresholds.MAX_CPU_UTILIZATION_PERCENT) \o "%."],
         disk_utilization |->
            [warning |-> thresholds.STORAGE_UTILIZATION_WARNING_PERCENT,
             critical |-> thresholds.STORAGE_UTILIZATION_CRITICAL_PERCENT,
             description |->
                "Warning at " \o FormatInt(thresholds.STORAGE_UTILIZATION_WARNING_PERCENT)
                \o "%, critical at "
                \o FormatInt(thresholds.STORAGE_UTILIZATION_CRITICAL_PERCENT) \o "%."],
         replication |->
            [recommended_factor |-> thresholds.RECOMMENDED_REPLICATION_FACTOR,
             min_insync_replicas |-> thresholds.RECOMMENDED_MIN_INSYNC_REPLICAS,
             description |->
                "For optimal resilience, use replication factor 3 with minimum ISR of 2."],
         under_replicated_partitions |->
            [tolerance |-> thresholds.UNDER_REPLICATED_PARTITIONS_TOLERANCE,
             description |->
                "Any deviation from zero indicates potential replication health issues."],
         leader_imbalance |->
            [tolerance_percent |-> thresholds.LEADER_IMBALANCE_TOLERANCE_PERCENT,
             description |->
                "Maintain leader distribution within "
                \o FormatInt(thresholds.LEADER_IMBALANCE_TOLERANCE_PERCENT)
                \o "% balance to avoid performance bottlenecks."]],
     instance_specs |-> INSTANCE_SPECS,
     instance_categories |->
        [standard |-> SelectSeq(keys(INSTANCE_SPECS), LAMBDA key : startswith(key, "kafka.")),
         express |-> SelectSeq(keys(INSTANCE_SPECS), LAMBDA key : startswith(key, "express."))]]

(***************************************************************************)
(* Callers of the best-practices module.  The handlers are coroutines      *)
(* without an await, so the server runs each from start to end before the  *)
(* next: concurrent requests are served one whole handler at a time, in    *)
(* any order.                                                              *)
(***************************************************************************)

\* instance types callers ask for that are not keys of the table
UnknownTypes == {"not-a-real-type", "express.m5.large", "kafka.m5.large ", ""}

InstanceTypes == KeySet(INSTANCE_SPECS_literal) \cup UnknownTypes

NoCall == [op |-> "none", args |-> <<>>, out |-> Return("")]

\* the direct call with specs = INSTANCE_SPECS.pop(instance_type): the lookup
\* removes the item it reads
call_get_cluster_best_practices_pop(instance_type, number_of_brokers) ==
    /\ response' = [op |-> "get_cluster_best_practices",
                    args |-> <<instance_type, number_of_brokers>>,
                    out |-> get_cluster_best_practices(instance_type, number_of_brokers)]
    /\ INSTANCE_SPECS' = SelectSeq(INSTANCE_SPECS, LAMBDA item : item[1] # instance_type)
    /\ UNCHANGED <<thresholds, earlier>>
    /\ UNCHANGED infovars

\* a direct call get_cluster_best_practices(instance_type, number_of_brokers)
call_get_cluster_best_practices(instance_type, number_of_brokers) ==
    /\ response' = [op |-> "get_cluster_best_practices",
                    args |-> <<instance_type, number_of_brokers>>,
                    out |-> get_cluster_best_practices(instance_type, number_of_brokers)]
    /\ UNCHANGED <<INSTANCE_SPECS, thresholds, earlier>>
    /\ UNCHANGED infovars

\* the cluster resource with INSTANCE_SPECS.setdefault(instance_type, {}): a
\* lookup of an unknown type adds it to the table
msk_cluster_best_practices_setdefault(instance_type, number_of_brokers) ==
    /\ LET r == get_cluster_best_practices(instance_type, int(number_of_brokers))
       IN response' = [op |-> "msk_cluster_best_practices",
                       args |-> <<instance_type, number_of_brokers>>,
                       out |-> IF r.raised THEN r ELSE Return(json_dumps(r.value))]
    /\ INSTANCE_SPECS' =
          IF instance_type \in KeySet(INSTANCE_SPECS)
          THEN INSTANCE_SPECS
          ELSE Append(INSTANCE_SPECS, <<instance_type, <<>>>>)
    /\ UNCHANGED <<thresholds, earlier>>
    /\ UNCHANGED infovars

\* resource://msk-best-practices/cluster/{instance_type}/{number_of_brokers}
msk_cluster_best_practices(instance_type, number_of_brokers) ==
    /\ LET r == get_cluster_best_practices(instance_type, int(number_of_brokers))
       IN response' = [op |-> "msk_cluster_best_practices",
                       args |-> <<instance_type, number_of_brokers>>,
                       out |-> IF r.raised THEN r ELSE Return(json_dumps(r.value))]
    /\ UNCHANGED <<INSTANCE_SPECS, thresholds, earlier>>
    /\ UNCHANGED infovars

\* resource://msk-best-practices
msk_best_practices ==
    /\ response' = [op |-> "msk_best_practices", args |-> <<>>,
                    out |-> Return(json_dumps(best_practices))]
    /\ UNCHANGED <<INSTANCE_SPECS, thresholds, earlier>>
    /\ UNCHANGED infovars

\* a caller takes the result of a direct lookup and keeps it while later calls
\* are served
CallerKeeps ==
    /\ response.op = "get_cluster_best_practices"
    /\ earlier' = response
    /\ response' = NoCall
    /\ UNCHANGED <<INSTANCE_SPECS, thresholds>>
    /\ UNCHANGED infovars

(***************************************************************************)
(* tools/read_cluster: the forwarding functions and get_cluster_info.      *)
(* Each forwarded call blocks on the SDK; what the SDK answers (a response *)
(* or a fault) is the environment's choice at that step.                   *)
(***************************************************************************)

\* Python's None, kept apart from every str a caller passes
None == "None:NoneType"

\* truth value of a str-or-None argument: None and '' are false
truthy(x) == x # None /\ x # ""

\* str(e) of a raised exception
str(e) == e.value[2]

\* dict.get(key, default)
dict_get(d, key, default) == IF key \in DOMAIN d THEN d[key] ELSE default

\* the default of list_cluster_operations' max_results parameter
DEFAULT_MAX_RESULTS == 10

\* what a forwarding call did: the SDK requests it issued and its outcome
Forwarded(api, params, sdk) ==
    [sdk_calls |-> <<[api |-> api, params |-> params, out |-> sdk]>>, out |-> sdk]

NotForwarded(out) == [sdk_calls |-> <<>>, out |-> out]

ClientRequired ==
    Raise("ValueError",
          "Client must be provided. This function should only be called from get_cluster_info.")

\* list_cluster_operations testing `next_token is not None`: an empty token
\* is sent too
list_cluster_operations_token_not_none(cluster_arn, client, max_results, next_token, sdk) ==
    IF client = None
    THEN NotForwarded(ClientRequired)
    ELSE LET params == [ClusterArn |-> cluster_arn, MaxResults |-> max_results]
         IN Forwarded("list_cluster_operations_v2",
                      IF next_token # None
                      THEN ("NextToken" :> next_token) @@ params
                      ELSE params,
                      sdk)

\* list_cluster_operations(cluster_arn, client, max_results, next_token), the
\* SDK answering client.list_cluster_operations_v2(**params) with `sdk`
list_cluster_operations(cluster_arn, client, max_results, next_token, sdk) ==
    IF client = None
    THEN NotForwarded(ClientRequired)
    ELSE LET params == [ClusterArn |-> cluster_arn, MaxResults |-> max_results]
         IN Forwarded("list_cluster_operations_v2",
                      IF truthy(next_token)
                      THEN ("NextToken" :> next_token) @@ params
                      ELSE params,
                      sdk)

\* get_compatible_kafka_versions(cluster_arn, client), the SDK answering
\* client.get_compatible_kafka_versions(**params) with `sdk`
get_compatible_kafka_versions(cluster_arn, client, sdk) ==
    IF client = None
    THEN NotForwarded(ClientRequired)
    ELSE Forwarded("get_compatible_kafka_versions",
                   IF truthy(cluster_arn) THEN [ClusterArn |-> cluster_arn] ELSE <<>>,
                   sdk)

\* a call fn(*args) of one of the functions get_cluster_info imports.  The
\* two above run as written; the others' bodies are outside this model, so
\* such a call just ends the way the environment says: it returns a value or
\* raises.
Invoke(fn, args, env) ==
    CASE fn = "list_cluster_operations" ->
            list_cluster_operations(args[1], args[2], args[3], args[4], env)
      [] fn = "get_compatible_kafka_versions" ->
            get_compatible_kafka_versions(args[1], args[2], env)
      [] OTHER -> NotForwarded(env)

\* the ways the environment can end the call made through fn: one response
\* and one fault, each naming the call it belongs to
EnvOutcomes(fn) ==
    {Return([ResponseTo |-> fn]),
     Raise("ClientError", "An error occurred (AccessDeniedException) when calling " \o fn)}

\* boto3.client("kafka", region_name=region)
client == "boto3.client:kafka"

\* AllSequence with the third block pasted from the second and its key left
\* unchanged: list_nodes' entry is stored under "brokers"
AllSequence_pasted_key ==
    <<[key |-> "metadata", fn |-> "describe_cluster"],
      [key |-> "brokers", fn |-> "get_bootstrap_brokers"],
      [key |-> "brokers", fn |-> "list_nodes"],
      [key |-> "compatible_versions", fn |-> "get_compatible_kafka_versions"],
      [key |-> "policy", fn |-> "get_cluster_policy"],
      [key |-> "operations", fn |-> "list_cluster_operations"],
      [key |-> "client_vpc_connections", fn |-> "list_client_vpc_connections"],
      [key |-> "scram_secrets", fn |-> "list_scram_secrets"]>>

\* AllSequence with the second and third try blocks in the other order
AllSequence_nodes_first ==
    <<[key |-> "metadata", fn |-> "describe_cluster"],
      [key |-> "nodes", fn |-> "list_nodes"],
      [key |-> "brokers", fn |-> "get_bootstrap_brokers"],
      [key |-> "compatible_versions", fn |-> "get_compatible_kafka_versions"],
      [key |-> "policy", fn |-> "get_cluster_policy"],
      [key |-> "operations", fn |-> "list_cluster_operations"],
      [key |-> "client_vpc_connections", fn |-> "list_client_vpc_connections"],
      [key |-> "scram_secrets", fn |-> "list_scram_secrets"]>>

\* the info_type="all" branch: the result key and the function of each try
\* block, in program order
AllSequence ==
    <<[key |-> "metadata", fn |-> "describe_cluster"],
      [key |-> "brokers", fn |-> "get_bootstrap_brokers"],
      [key |-> "nodes", fn |-> "list_nodes"],
      [key |-> "compatible_versions", fn |-> "get_compatible_kafka_versions"],
      [key |-> "policy", fn |-> "get_cluster_policy"],
      [key |-> "operations", fn |-> "list_cluster_operations"],
      [key |-> "client_vpc_connections", fn |-> "list_client_vpc_connections"],
      [key |-> "scram_secrets", fn |-> "list_scram_secrets"]>>

\* the positional arguments of a call in the "all" branch: (cluster_arn,
\* client), the parameters left out taking their defaults
AllArgs(fn, cluster_arn) ==
    IF fn = "list_cluster_operations"
    THEN <<cluster_arn, client, DEFAULT_MAX_RESULTS, None>>
    ELSE <<cluster_arn, client>>

\* the except clause storing the exception's class name instead of str(e)
try_except_class_name(out) == IF out.raised THEN [error |-> out.value[1]] ELSE out.value

\* try: result[key] = f(...)  except Exception as e: result[key] = {"error": str(e)}
try_except(out) == IF out.raised THEN [error |-> str(out)] ELSE out.value

\* the elif chain: the function and the arguments of a single info_type
SingleCall(info_type, cluster_arn, kwargs) ==
    CASE info_type = "metadata" -> [fn |-> "describe_cluster", args |-> <<cluster_arn, client>>]
      [] info_type = "brokers" ->
            [fn |-> "get_bootstrap_brokers", args |-> <<cluster_arn, client>>]
      [] info_type = "nodes" -> [fn |-> "list_nodes", args |-> <<cluster_arn, client>>]
      [] info_type = "compatible_versions" ->
            [fn |-> "get_compatible_kafka_versions", args |-> <<cluster_arn, client>>]
      [] info_type = "policy" ->
            [fn |-> "get_cluster_policy", args |-> <<cluster_arn, client>>]
      [] info_type = "operations" ->
            [fn |-> "list_cluster_operations",
             args |-> <<cluster_arn, client, dict_get(kwargs, "max_results", 10),
                        dict_get(kwargs, "next_token", None)>>]
      [] info_type = "client_vpc_connections" ->
            [fn |-> "list_client_vpc_connections",
             args |-> <<cluster_arn, client, dict_get(kwargs, "max_results", 10),
                        dict_get(kwargs, "next_token", None)>>]
      [] info_type = "scram_secrets" ->
            [fn |-> "list_scram_secrets",
             args |-> <<cluster_arn, client, dict_get(kwargs, "max_results", None),
                        dict_get(kwargs, "next_token", None)>>]

\* the elif chain without its last branch: "scram_secrets" falls to the else
SingleTypes_no_scram_secrets ==
    {"metadata", "brokers", "nodes", "compatible_versions", "policy", "operations",
     "client_vpc_connections"}

SingleTypes ==
    {"metadata", "brokers", "nodes", "compatible_versions", "policy", "operations",
     "client_vpc_connections", "scram_secrets"}

\* what callers pass
ClusterArns == {None, "", "arn:aws:kafka:us-east-1:123456789012:cluster/demo/abc"}
InfoTypes ==
    {"all", "metadata", "brokers", "nodes", "compatible_versions", "policy", "operations",
     "client_vpc_connections", "scram_secrets", "everything", ""}
KwargsChoices ==
    {<<>>, [max_results |-> 5], [next_token |-> "tok"], [next_token |-> ""],
     [max_results |-> 5, next_token |-> "tok"]}

NoRequest == [cluster_arn |-> "", info_type |-> "", kwargs |-> <<>>]

\* get_cluster_info is entered: the client is made and info_type selects the
\* branch; an info_type of no branch raises at once
get_cluster_info_enter(cluster_arn, info_type, kwargs) ==
    /\ pc = "idle"
    /\ request' = [cluster_arn |-> cluster_arn, info_type |-> info_type, kwargs |-> kwargs]
    /\ result' = <<>>
    /\ calls' = <<>>
    /\ sdk_calls' = <<>>
    /\ IF info_type = "all"
       THEN pc' = "all" /\ UNCHANGED outcome
       ELSE IF info_type \in SingleTypes
            THEN pc' = "single" /\ UNCHANGED outcome
            ELSE /\ pc' = "done"
                 /\ outcome' = Raise("ValueError", "Unsupported info_type: " \o info_type)
    /\ UNCHANGED bpvars

\* the next try block of the "all" branch; after the last one the function
\* returns result
get_cluster_info_all_step ==
    /\ pc = "all"
    /\ LET i == Len(calls) + 1
           fn == AllSequence[i].fn
           args == AllArgs(fn, request.cluster_arn)
       IN \E env \in EnvOutcomes(fn) :
             LET r == Invoke(fn, args, env)
                 updated == (AllSequence[i].key :> try_except(r.out)) @@ result
             IN /\ result' = updated
                /\ calls' = Append(calls, [fn |-> fn, args |-> args, out |-> r.out])
                /\ sdk_calls' = sdk_calls \o r.sdk_calls
                /\ IF i = Len(AllSequence)
                   THEN pc' = "done" /\ outcome' = Return(updated)
                   ELSE UNCHANGED <<pc, outcome>>
    /\ UNCHANGED request
    /\ UNCHANGED bpvars

\* the branch of a single info_type: return f(...)
get_cluster_info_single_step ==
    /\ pc = "single"
    /\ LET call == SingleCall(request.info_type, request.cluster_arn, request.kwargs)
       IN \E env \in EnvOutcomes(call.fn) :
             LET r == Invoke(call.fn, call.args, env)
             IN /\ calls' = Append(calls, [fn |-> call.fn, args |-> call.args, out |-> r.out])
                /\ sdk_calls' = sdk_calls \o r.sdk_calls
                /\ outcome' = r.out
    /\ pc' = "done"
    /\ UNCHANGED <<request, result>>
    /\ UNCHANGED bpvars

\* the caller has the outcome; the tool is free for the next call
get_cluster_info_exit ==
    /\ pc = "done"
    /\ pc' = "idle"
    /\ request' = NoRequest
    /\ result' = <<>>
    /\ calls' = <<>>
    /\ sdk_calls' = <<>>
    /\ outcome' = Return(<<>>)
    /\ UNCHANGED bpvars

\* what callers of the forwarding functions pass: the client or None, the
\* max_results default or a value of their own, and a token, '' or None
Clients == {None, client}
MaxResultsChoices == {DEFAULT_MAX_RESULTS, 5}
NextTokens == {None, "", "tok"}

\* a direct call list_cluster_operations(cluster_arn, client, max_results, next_token)
call_list_cluster_operations(cluster_arn, cl, max_results, next_token) ==
    /\ pc = "idle"
    /\ \E env \in EnvOutcomes("list_cluster_operations") :
          LET r == list_cluster_operations(cluster_arn, cl, max_results, next_token, env)
          IN /\ calls' = <<[fn |-> "list_cluster_operations",
                            args |-> <<cluster_arn, cl, max_results, next_token>>,
                            out |-> r.out]>>
             /\ sdk_calls' = r.sdk_calls
             /\ outcome' = r.out
    /\ pc' = "called"
    /\ UNCHANGED <<request, result>>
    /\ UNCHANGED bpvars

\* a direct call get_compatible_kafka_versions(cluster_arn, client)
call_get_compatible_kafka_versions(cluster_arn, cl) ==
    /\ pc = "idle"
    /\ \E env \in EnvOutcomes("get_compatible_kafka_versions") :
          LET r == get_compatible_kafka_versions(cluster_arn, cl, env)
          IN /\ calls' = <<[fn |-> "get_compatible_kafka_versions",
                            args |-> <<cluster_arn, cl>>,
                            out |-> r.out]>>
             /\ sdk_calls' = r.sdk_calls
             /\ outcome' = r.out
    /\ pc' = "called"
    /\ UNCHANGED <<request, result>>
    /\ UNCHANGED bpvars

\* the caller of a forwarding function has its outcome
direct_call_exit ==
    /\ pc = "called"
    /\ pc' = "idle"
    /\ calls' = <<>>
    /\ sdk_calls' = <<>>
    /\ outcome' = Return(<<>>)
    /\ UNCHANGED <<request, result>>
    /\ UNCHANGED bpvars

\* no get_cluster_info call is in progress
ToolAtRest ==
    /\ request = NoRequest
    /\ pc = "idle"
    /\ result = <<>>
    /\ calls = <<>>
    /\ sdk_calls = <<>>
    /\ outcome = Return(<<>>)

\* resources/best_practices.py is imported: its globals hold their literals
Init ==
    /\ INSTANCE_SPECS = INSTANCE_SPECS_literal
    /\ thresholds = ThresholdConstants
    /\ response = NoCall
    /\ earlier = NoCall
    /\ ToolAtRest

\* tools/read_cluster on its own: the package does not import
\* resources/best_practices, whose globals are absent here
InitInfo ==
    /\ INSTANCE_SPECS = <<>>
    /\ thresholds = <<>>
    /\ response = NoCall
    /\ earlier = NoCall
    /\ ToolAtRest

Next ==
    \/ \E instance_type \in InstanceTypes, number_of_brokers \in BrokerCounts :
          call_get_cluster_best_practices(instance_type, number_of_brokers)
    \/ \E instance_type \in InstanceTypes, number_of_brokers \in BrokerCounts :
          msk_cluster_best_practices(instance_type, number_of_brokers)
    \/ msk_best_practices

\* the best-practices module under any order of calls, with every key of the
\* table and the unknown types as inputs
Spec == Init /\ [][Next]_vars

\* the instance types of the calls whose results callers compare: a standard
\* key, two express keys, and one that is no key
ComparedTypes ==
    {"kafka.t3.small", "kafka.m5.large", "express.m7g.large", "express.m7g.16xlarge",
     "not-a-real-type"}

NextRepeat ==
    \/ \E instance_type \in ComparedTypes, number_of_brokers \in BrokerCounts :
          call_get_cluster_best_practices(instance_type, number_of_brokers)
    \/ \E instance_type \in ComparedTypes, number_of_brokers \in BrokerCounts :
          msk_cluster_best_practices(instance_type, number_of_brokers)
    \/ msk_best_practices
    \/ CallerKeeps

\* the same module with a caller that keeps an earlier result across any
\* sequence of later calls
SpecRepeat == Init /\ [][NextRepeat]_vars

NextInfo ==
    \/ \E cluster_arn \in ClusterArns, info_type \in InfoTypes, kwargs \in KwargsChoices :
          get_cluster_info_enter(cluster_arn, info_type, kwargs)
    \/ get_cluster_info_all_step
    \/ get_cluster_info_single_step
    \/ get_cluster_info_exit
    \/ \E cluster_arn \in ClusterArns, cl \in Clients, max_results \in MaxResultsChoices,
          next_token \in NextTokens :
          call_list_cluster_operations(cluster_arn, cl, max_results, next_token)
    \/ \E cluster_arn \in ClusterArns, cl \in Clients :
          call_get_compatible_kafka_versions(cluster_arn, cl)
    \/ direct_call_exit

\* the get_cluster_info tool and the two forwarding functions, one call after
\* another
SpecInfo == InitInfo /\ [][NextInfo]_vars

\* the same with every forwarded call ending: a call blocks on one SDK request,
\* which returns or raises, and the interpreter then runs the next statement
SpecInfoFair ==
    /\ InitInfo
    /\ [][NextInfo]_vars
    /\ WF_vars(get_cluster_info_all_step)
    /\ WF_vars(get_cluster_info_single_step)

(***************************************************************************)
(* Properties of get_cluster_best_practices and the two resources.         *)
(***************************************************************************)

\* the response is that of a direct get_cluster_best_practices call
IsLookup(r) == r.op = "get_cluster_best_practices"

\* the keys of a recommendation
RecommendationFields ==
    {"Instance Type", "Number of Brokers", "vCPU per Broker", "Memory (GB) per Broker",
     "Network Bandwidth (Gbps) per Broker", "Ingress Throughput Recommended (MBps)",
     "Ingress Throughput Max (MBps)", "Egress Throughput Recommended (MBps)",
     "Egress Throughput Max (MBps)", "Recommended Partitions per Broker",
     "Max Partitions per Broker", "Recommended Max Partitions per Cluster",
     "Max Partitions per Cluster", "CPU Utilization Guidelines",
     "Disk Utilization Guidelines", "Replication Factor", "Minimum In-Sync Replicas",
     "Under-Replicated Partitions Tolerance", "Leader Imbalance Tolerance (%)"}

\* C1: a lookup of an instance type that is no key of INSTANCE_SPECS, with any
\* broker count, returns (does not raise) a dict whose only key is 'Error' and
\* whose message contains the instance type verbatim.
C1_UnsupportedTypeReturnsError ==
    (IsLookup(response) /\ response.args[1] \notin KeySet(INSTANCE_SPECS)) =>
        /\ ~response.out.raised
        /\ DOMAIN response.out.value = {"Error"}
        /\ Contains(response.out.value["Error"], response.args[1])

C1_Witness ==
    /\ IsLookup(response)
    /\ response.args = <<"not-a-real-type", 5>>
    /\ ~response.out.raised
    /\ response.out.value["Error"] =
          "Instance type 'not-a-real-type' is not supported or recognized."

\* C2: a lookup of a key of INSTANCE_SPECS with a positive broker count never
\* raises and returns a recommendation: no 'Error' key, every recommendation
\* field present, the inputs echoed, under-replicated-partition tolerance 0 and
\* leader-imbalance tolerance 10.
C2_SupportedTypeReturnsRecommendation ==
    (IsLookup(response) /\ response.args[1] \in KeySet(INSTANCE_SPECS)
                        /\ response.args[2] > 0) =>
        /\ ~response.out.raised
        /\ "Error" \notin DOMAIN response.out.value
        /\ DOMAIN response.out.value = RecommendationFields
        /\ startswith(response.out.value["Instance Type"], response.args[1] \o " ")
        /\ startswith(response.out.value["Number of Brokers"],
                      FormatInt(response.args[2]) \o " ")
        /\ response.out.value["Under-Replicated Partitions Tolerance"] = 0
        /\ response.out.value["Leader Imbalance Tolerance (%)"] = 10

C2_Witness ==
    /\ IsLookup(response)
    /\ response.args = <<"express.m7g.16xlarge", 5>>
    /\ ~response.out.raised
    /\ response.out.value["Egress Throughput Max (MBps)"] = "1875.0" \o CloudWatchNote
    /\ response.out.value["Memory (GB) per Broker"] = "256 (available on the host)"

\* C3: for a key id and a broker count n the two cluster ceilings are the
\* per-broker figures of INSTANCE_SPECS[id] times n, and a lookup with n + 1
\* brokers raises each ceiling by exactly the per-broker figure.
C3_ClusterCeilingsLinear ==
    (IsLookup(response) /\ response.args[1] \in KeySet(INSTANCE_SPECS_literal)) =>
        LET id == response.args[1]
            n == response.args[2]
            spec == getitem(INSTANCE_SPECS_literal, id)
            doc == response.out.value
            next == get_cluster_best_practices(id, n + 1).value
        IN /\ ~response.out.raised
           /\ doc["Recommended Max Partitions per Cluster"] =
                 spec["Partitions per Broker Recommended"] * n
           /\ doc["Max Partitions per Cluster"] = spec["Partitions per Broker Max"] * n
           /\ next["Recommended Max Partitions per Cluster"]
                 - doc["Recommended Max Partitions per Cluster"]
                 = spec["Partitions per Broker Recommended"]
           /\ next["Max Partitions per Cluster"] - doc["Max Partitions per Cluster"]
                 = spec["Partitions per Broker Max"]

C3_Witness ==
    /\ IsLookup(response)
    /\ response.args = <<"kafka.m5.large", 3>>
    /\ response.out.value["Recommended Max Partitions per Cluster"] = 3000
    /\ response.out.value["Max Partitions per Cluster"] = 4500

\* the decimal number the 'Replication Factor' field starts with is rf
ReplicationFactorIs(doc, rf) == startswith(doc["Replication Factor"], FormatInt(rf) \o " ")

\* C4: for a key that does not start with 'express.' and any broker count n:
\* if n >= 3 the replication factor is 3 and 'Minimum In-Sync Replicas' is 2,
\* otherwise both equal n.
C4_StandardReplication ==
    (IsLookup(response) /\ response.args[1] \in KeySet(INSTANCE_SPECS)
                        /\ ~startswith(response.args[1], "express.")) =>
        LET n == response.args[2]
            doc == response.out.value
        IN /\ ~response.out.raised
           /\ n >= 3 => ReplicationFactorIs(doc, 3) /\ doc["Minimum In-Sync Replicas"] = 2
           /\ n < 3 => ReplicationFactorIs(doc, n) /\ doc["Minimum In-Sync Replicas"] = n

C4_Witness ==
    /\ IsLookup(response)
    /\ response.args = <<"kafka.t3.small", 2>>
    /\ response.out.value["Replication Factor"] = "2 (recommended)"
    /\ response.out.value["Minimum In-Sync Replicas"] = 2

\* C5: for a key that starts with 'express.' and any broker count n the
\* replication factor is 3, and 'Minimum In-Sync Replicas' is that of the
\* broker-count branch: 2 if n >= 3, otherwise n.
C5_ExpressReplication ==
    (IsLookup(response) /\ response.args[1] \in KeySet(INSTANCE_SPECS)
                        /\ startswith(response.args[1], "express.")) =>
        LET n == response.args[2]
            doc == response.out.value
        IN /\ ~response.out.raised
           /\ ReplicationFactorIs(doc, 3)
           /\ doc["Minimum In-Sync Replicas"] = IF n >= 3 THEN 2 ELSE n

C5_Witness ==
    /\ IsLookup(response)
    /\ response.args = <<"express.m7g.large", 1>>
    /\ ReplicationFactorIs(response.out.value, 3)
    /\ response.out.value["Minimum In-Sync Replicas"] = 1

\* the elements of a list
Elements(list) == {list[i] : i \in 1..Len(list)}

\* C6: in the catalog document instance_categories.standard holds exactly the
\* keys of INSTANCE_SPECS that start with 'kafka.', instance_categories.express
\* exactly those that start with 'express.', each once, and the two together
\* are the whole key set.
C6_CategoriesPartitionKeys ==
    response.op = "msk_best_practices" =>
        LET doc == response.out.value.json
            standard == doc.instance_categories.standard
            express == doc.instance_categories.express
        IN /\ Elements(standard) = {k \in KeySet(INSTANCE_SPECS) : startswith(k, "kafka.")}
           /\ Elements(express) = {k \in KeySet(INSTANCE_SPECS) : startswith(k, "express.")}
           /\ Cardinality(Elements(standard)) = Len(standard)
           /\ Cardinality(Elements(express)) = Len(express)
           /\ Elements(standard) \cup Elements(express) = KeySet(INSTANCE_SPECS)
           /\ Elements(standard) \cup Elements(express) = KeySet(doc.instance_specs)

C6_Witness ==
    /\ response.op = "msk_best_practices"
    /\ Len(response.out.value.json.instance_categories.standard) = 16
    /\ Len(response.out.value.json.instance_categories.express) = 7
    /\ response.out.value.json.instance_categories.standard[1] = "kafka.t3.small"

\* C7: two get_cluster_best_practices calls with the same arguments return the
\* same result, whatever lookups and catalog reads were served between them.
C7_SameArgumentsSameResult ==
    (IsLookup(earlier) /\ IsLookup(response) /\ earlier.args = response.args) =>
        earlier.out = response.out

C7_Witness ==
    /\ IsLookup(earlier)
    /\ IsLookup(response)
    /\ earlier.args = <<"express.m7g.large", 1>>
    /\ response.args = earlier.args
    /\ ~response.out.raised
    /\ response.out.value["Minimum In-Sync Replicas"] = 1

\* C8: no operation changes INSTANCE_SPECS or a threshold constant: in every
\* reachable state, whatever calls were served in whatever order, they have
\* their initial values.
C8_TableAndThresholdsFixed ==
    /\ INSTANCE_SPECS = INSTANCE_SPECS_literal
    /\ thresholds = ThresholdConstants

C8_Witness ==
    /\ response.op = "msk_cluster_best_practices"
    /\ response.args[1] = "not-a-real-type"
    /\ ~response.out.raised
    /\ DOMAIN response.out.value.json = {"Error"}
    /\ INSTANCE_SPECS = INSTANCE_SPECS_literal

(***************************************************************************)
(* Properties of get_cluster_info.                                         *)
(***************************************************************************)

AllKeys ==
    {"metadata", "brokers", "nodes", "compatible_versions", "policy", "operations",
     "client_vpc_connections", "scram_secrets"}

\* the result key that belongs to each imported function
KeyOfFunction(fn) ==
    CASE fn = "describe_cluster" -> "metadata"
      [] fn = "get_bootstrap_brokers" -> "brokers"
      [] fn = "list_nodes" -> "nodes"
      [] fn = "get_compatible_kafka_versions" -> "compatible_versions"
      [] fn = "get_cluster_policy" -> "policy"
      [] fn = "list_cluster_operations" -> "operations"
      [] fn = "list_client_vpc_connections" -> "client_vpc_connections"
      [] fn = "list_scram_secrets" -> "scram_secrets"

\* the function each SDK operation is requested by
FunctionOfApi(api) ==
    CASE api = "list_cluster_operations_v2" -> "list_cluster_operations"
      [] api = "get_compatible_kafka_versions" -> "get_compatible_kafka_versions"

\* C9: with info_type="all", whichever sub-calls fail, every sub-call made so
\* far has its own entry in result ({"error": message} if it raised, its
\* response if it returned) and the entry stays as it is while later sub-calls
\* run; the call never raises and returns the dict with exactly the eight keys.
C9_AllKeepsEveryEntry ==
    request.info_type = "all" =>
        /\ \A i \in 1..Len(calls) :
              LET key == KeyOfFunction(calls[i].fn)
              IN /\ key \in DOMAIN result
                 /\ calls[i].out.raised => result[key] = [error |-> calls[i].out.value[2]]
                 /\ ~calls[i].out.raised => result[key] = calls[i].out.value
        /\ pc = "done" =>
              /\ ~outcome.raised
              /\ outcome.value = result
              /\ DOMAIN outcome.value = AllKeys
              /\ Len(calls) = 8

C9_Witness ==
    /\ request.info_type = "all"
    /\ pc = "done"
    /\ calls[1].out.raised
    /\ ~calls[2].out.raised
    /\ calls[6].out.raised
    /\ ~calls[8].out.raised
    /\ outcome.value["metadata"] =
          [error |-> "An error occurred (AccessDeniedException) when calling describe_cluster"]
    /\ outcome.value["brokers"] = [ResponseTo |-> "get_bootstrap_brokers"]

\* C10 as stated: whenever an SDK call forwarded for get_cluster_info faults,
\* with a single info_type as well as with "all", the tool ends without
\* raising (the fault is folded into an {"error": message} entry).
C10_EveryFaultFolded ==
    (pc = "done" /\ request.info_type \in SingleTypes \cup {"all"}
                 /\ \E i \in 1..Len(sdk_calls) : sdk_calls[i].out.raised) =>
        ~outcome.raised

\* C10 amended: with info_type="all" a faulting forwarded call is caught and
\* folded into {"error": message} under that call's key, and get_cluster_info
\* returns; with a single info_type nothing is caught: the exception of the
\* one forwarded call, an SDK fault included, is raised to the caller.
C10_FaultsFoldedOnlyInAll ==
    /\ request.info_type = "all" =>
          /\ \A i \in 1..Len(calls) :
                calls[i].out.raised =>
                    result[KeyOfFunction(calls[i].fn)] = [error |-> calls[i].out.value[2]]
          /\ \A i \in 1..Len(sdk_calls) :
                sdk_calls[i].out.raised =>
                    result[KeyOfFunction(FunctionOfApi(sdk_calls[i].api))]
                        = [error |-> sdk_calls[i].out.value[2]]
          /\ pc = "done" => ~outcome.raised
    /\ (request.info_type \in SingleTypes /\ pc = "done") =>
          /\ Len(calls) = 1
          /\ outcome = calls[1].out
          /\ \A i \in 1..Len(sdk_calls) : outcome = sdk_calls[i].out

C10_Witness ==
    /\ request.info_type = "operations"
    /\ pc = "done"
    /\ Len(sdk_calls) = 1
    /\ sdk_calls[1].api = "list_cluster_operations_v2"
    /\ sdk_calls[1].out.raised
    /\ outcome.raised
    /\ outcome.value[1] = "ClientError"

\* the functions of the "all" branch in the order they are to be attempted
AllOrder ==
    <<"describe_cluster", "get_bootstrap_brokers", "list_nodes",
      "get_compatible_kafka_versions", "get_cluster_policy", "list_cluster_operations",
      "list_client_vpc_connections", "list_scram_secrets">>

\* C11: with info_type="all" the calls made so far are always the first ones of
\* describe_cluster, get_bootstrap_brokers, list_nodes,
\* get_compatible_kafka_versions, get_cluster_policy, list_cluster_operations,
\* list_client_vpc_connections, list_scram_secrets, in that order; every step,
\* whatever the earlier outcomes, attempts exactly the next one (none again,
\* none skipped); and the call eventually returns, after the eighth.
C11_AllAttemptsInOrderAndReturns ==
    /\ [](request.info_type = "all" =>
            /\ Len(calls) <= 8
            /\ \A i \in 1..Len(calls) : calls[i].fn = AllOrder[i]
            /\ pc = "done" <=> Len(calls) = 8)
    /\ [][(request.info_type = "all" /\ pc = "all") =>
            /\ Len(calls') = Len(calls) + 1
            /\ SubSeq(calls', 1, Len(calls)) = calls]_vars
    /\ (request.info_type = "all" /\ pc = "all") ~>
            (pc = "done" /\ ~outcome.raised /\ Len(calls) = 8)

C11_Witness ==
    /\ request.info_type = "all"
    /\ pc = "done"
    /\ [i \in 1..Len(calls) |-> calls[i].fn] = AllOrder
    /\ calls[1].out.raised
    /\ calls[2].out.raised
    /\ ~calls[3].out.raised
    /\ ~outcome.raised

\* the replication factor get_cluster_best_practices computes for a key
ComputedReplicationFactor(instance_type, number_of_brokers) ==
    IF startswith(instance_type, "express.")
    THEN 3
    ELSE IF number_of_brokers >= 3 THEN 3 ELSE number_of_brokers

\* C12: the 'Replication Factor' field of a recommendation is the decimal
\* computed replication factor followed by ' (Note: For express clusters,
\* replication factor should always be 3)' if the instance type starts with
\* 'express.' and by ' (recommended)' if it does not; ('kafka.m5.large', 3)
\* yields '3 (recommended)' with cluster ceilings 3000 and 4500.
C12_ReplicationFactorAnnotation ==
    (IsLookup(response) /\ response.args[1] \in KeySet(INSTANCE_SPECS)) =>
        LET id == response.args[1]
            n == response.args[2]
            doc == response.out.value
            number == FormatInt(ComputedReplicationFactor(id, n))
            express ==
                number \o " (Note: For express clusters, replication factor should always be 3)"
            general == number \o " (recommended)"
        IN /\ ~response.out.raised
           /\ doc["Replication Factor"] = express <=> startswith(id, "express.")
           /\ doc["Replication Factor"] = general <=> ~startswith(id, "express.")
           /\ response.args = <<"kafka.m5.large", 3>> =>
                 /\ doc["Replication Factor"] = "3 (recommended)"
                 /\ doc["Recommended Max Partitions per Cluster"] = 3000
                 /\ doc["Max Partitions per Cluster"] = 4500

C12_Witness ==
    /\ IsLookup(response)
    /\ response.args = <<"kafka.m5.large", 3>>
    /\ response.out.value["Replication Factor"] = "3 (recommended)"
    /\ response.out.value["Minimum In-Sync Replicas"] = 2

\* the calls of the two forwarding functions among the calls made, and those
\* of them that were given a client
IsForwarding(c) == c.fn \in {"list_cluster_operations", "get_compatible_kafka_versions"}
ForwardingCalls == SelectSeq(calls, IsForwarding)
ForwardingCallsWithClient == SelectSeq(ForwardingCalls, LAMBDA c : c.args[2] # None)

\* C13: list_cluster_operations and get_compatible_kafka_versions, called
\* directly or for get_cluster_info: with client None they raise ValueError and
\* no SDK request is made; otherwise each makes exactly one SDK request and ends
\* as that request ends (its response returned unchanged).
\* list_cluster_operations sends ClusterArn and MaxResults always (10 when
\* max_results is left out, also for info_type="operations" without
\* kwargs['max_results']) and NextToken exactly when next_token is non-empty;
\* get_compatible_kafka_versions sends ClusterArn exactly when cluster_arn is
\* non-empty, and nothing else.
C13_ForwardingShims ==
    /\ \A i \in 1..Len(ForwardingCalls) :
          ForwardingCalls[i].args[2] = None =>
              /\ ForwardingCalls[i].out.raised
              /\ ForwardingCalls[i].out.value[1] = "ValueError"
    /\ Len(sdk_calls) = Len(ForwardingCallsWithClient)
    /\ \A j \in 1..Len(ForwardingCallsWithClient) :
          LET c == ForwardingCallsWithClient[j]
              q == sdk_calls[j]
          IN /\ c.out = q.out
             /\ c.fn = "list_cluster_operations" =>
                   /\ q.api = "list_cluster_operations_v2"
                   /\ DOMAIN q.params =
                         {"ClusterArn", "MaxResults"}
                         \cup (IF c.args[4] \notin {None, ""} THEN {"NextToken"} ELSE {})
                   /\ q.params["ClusterArn"] = c.args[1]
                   /\ q.params["MaxResults"] = c.args[3]
                   /\ "NextToken" \in DOMAIN q.params => q.params["NextToken"] = c.args[4]
                   /\ request.info_type = "all" => q.params["MaxResults"] = 10
                   /\ request.info_type = "operations" =>
                         q.params["MaxResults"] =
                            IF "max_results" \in DOMAIN request.kwargs
                            THEN request.kwargs["max_results"]
                            ELSE 10
             /\ c.fn = "get_compatible_kafka_versions" =>
                   /\ q.api = "get_compatible_kafka_versions"
                   /\ DOMAIN q.params =
                         IF c.args[1] \notin {None, ""} THEN {"ClusterArn"} ELSE {}
                   /\ "ClusterArn" \in DOMAIN q.params => q.params["ClusterArn"] = c.args[1]

C13_Witness ==
    /\ pc = "called"
    /\ Len(calls) = 1
    /\ calls[1].fn = "list_cluster_operations"
    /\ calls[1].args[2] # None
    /\ calls[1].args[4] = ""
    /\ Len(sdk_calls) = 1
    /\ DOMAIN sdk_calls[1].params = {"ClusterArn", "MaxResults"}
    /\ sdk_calls[1].params["MaxResults"] = 10
    /\ ~outcome.raised
    /\ outcome.value = sdk_calls[1].out.value

\* C14: a get_cluster_info call whose info_type is none of all, metadata,
\* brokers, nodes, compatible_versions, policy, operations,
\* client_vpc_connections, scram_secrets raises ValueError naming the info_type
\* and makes no forwarded call; with one of the eight single info_types it
\* makes exactly one forwarded call, the one that belongs to the info_type.
C14_InfoTypeDispatch ==
    /\ pc = "single" => calls = <<>> /\ sdk_calls = <<>>
    /\ pc = "done" =>
          /\ request.info_type \notin AllKeys \cup {"all"} =>
                /\ outcome.raised
                /\ outcome.value[1] = "ValueError"
                /\ Contains(outcome.value[2], request.info_type)
                /\ calls = <<>>
                /\ sdk_calls = <<>>
          /\ request.info_type \in AllKeys =>
                /\ Len(calls) = 1
                /\ KeyOfFunction(calls[1].fn) = request.info_type
                /\ Len(sdk_calls) <= 1
                /\ \A i \in 1..Len(sdk_calls) :
                      KeyOfFunction(FunctionOfApi(sdk_calls[i].api)) = request.info_type

C14_Witness ==
    /\ pc = "done"
    /\ request.info_type = "everything"
    /\ outcome = Raise("ValueError", "Unsupported info_type: everything")
    /\ calls = <<>>

\* C15: for every key of INSTANCE_SPECS, standard or express, and every positive
\* broker count, 1 <= 'Minimum In-Sync Replicas' <= replication factor <= 3
\* and 'Recommended Max Partitions per Cluster' <= 'Max Partitions per Cluster'.
C15_ReplicaAndCeilingOrder ==
    (IsLookup(response) /\ response.args[1] \in KeySet(INSTANCE_SPECS)
                        /\ response.args[2] > 0) =>
        LET doc == response.out.value
        IN /\ ~response.out.raised
           /\ \E rf \in 1..3 :
                 /\ ReplicationFactorIs(doc, rf)
                 /\ 1 <= doc["Minimum In-Sync Replicas"]
                 /\ doc["Minimum In-Sync Replicas"] <= rf
           /\ doc["Recommended Max Partitions per Cluster"] <= doc["Max Partitions per Cluster"]

C15_Witness ==
    /\ IsLookup(response)
    /\ response.args = <<"express.m7g.2xlarge", 2>>
    /\ ReplicationFactorIs(response.out.value, 3)
    /\ response.out.value["Minimum In-Sync Replicas"] = 2
    /\ response.out.value["Recommended Max Partitions per Cluster"] = 4000
    /\ response.out.value["Max Partitions per Cluster"] = 6000

====
